---- MODULE Spec2Model ----
(***************************************************************************)
(* HTTPTransportAdapter (deferred-completion variant): the inbound         *)
(* listener, the request dispatcher with its pendingResponses registry and *)
(* 30-second timer, sendResponse, and the outbound send().                 *)
(*                                                                         *)
(* One inbound HTTP request is an "exchange" e \in Exchanges; one call of  *)
(* send() is a slot s \in Sends.  Strings built from templates are tuples  *)
(* of their pieces (<<"Invalid action provided: ", action>>).              *)
(***************************************************************************)
EXTENDS Integers, Sequences, FiniteSets, TLC

\* ------------------------------------------------------------------ bounds
MaxExch == 2
MaxSend == 2

Exchanges == 1..MaxExch
Sends     == 1..MaxSend

\* --------------------------------------------------------- program constants
HTTP_TRANSPORT_ENDPOINT == "/http-transport"
WireOk         == 200
BadRequestCode == 400
InternalCode   == 500
DefaultStatus  == 200
ZodStatus      == 400

\* ------------------------------------------------------------ input domains
NoId        == ""                     \* request_id absent (falsy)
RequestIds  == {"X", "Y"}
Undefined   == "undefined"
EmptyObject == "{}"

\* transportService.getReceivableActions(): action name -> handler, where a
\* key may be present with no concrete handler bound (Undefined).
ReceivableConfigs ==
  { <<>>,
    [a \in {"A", "B"} |-> IF a = "A" THEN "handler" ELSE Undefined] }

\* transportService.getSendableActions()
SendableActions == {"A"}

Ports == {0, 8080}

NullData  == [kind |-> "null"]
EmptyBody == [kind |-> "empty"]
\* Method and url of requests that are not POST /http-transport.
OtherRequests == { <<"GET", HTTP_TRANSPORT_ENDPOINT>>, <<"POST", "/other">> }

RequestDTO(a, c, r) ==
  [kind |-> "request", action |-> a, correlation_id |-> c, request_id |-> r]

\* Inbound envelopes: the bound action A under every request_id, and the
\* unbound action B and the unknown action U.
RequestDTOs ==
  { RequestDTO("A", "c1", r) : r \in RequestIds \cup {NoId} }
    \cup { RequestDTO(a, "c1", "X") : a \in {"B", "U"} }

\* CorrelatedResponseDTO handed to sendResponse by the rest of the system.
ResponseDTO(r, a, c) ==
  [request_id |-> r, action |-> a, correlation_id |-> c,
   data |-> "payload", error |-> <<>>, status |-> 200]

\* Injected envelopes: for X one echoing the request's action and
\* correlation_id and one with another action and correlation_id; for Y the
\* echoing one; and one without request_id.
ResponseDTOs ==
  { ResponseDTO("X", "A", "c1"), ResponseDTO("X", "B", "c2"),
    ResponseDTO("Y", "A", "c1"), ResponseDTO(NoId, "A", "c1") }

\* ------------------------------------------------------------------- errors
BadRequestError(msg) ==
  [class |-> "BaseError", code |-> BadRequestCode, message |-> msg]

InternalServerError(msg) ==
  [class |-> "BaseError", code |-> InternalCode, message |-> msg]

\* Mutant of TimeoutError: the timer rejects with a plain Error.
TimeoutErrorPlain(action) ==
  [class |-> "Error", code |-> 0, message |-> <<"Timeout waiting for HTTP response on ", action>>]

TimeoutError(action) ==
  InternalServerError(<<"Timeout waiting for HTTP response on ", action>>)

\* What a handler may throw: a ZodError with two issues, a BaseError with its
\* own code, a plain Error, and a thrown value that is no Error at all.
HandlerErrors ==
  { [class |-> "ZodError", code |-> 0, message |-> <<"m1", "m2">>],
    [class |-> "BaseError", code |-> 404, message |-> <<"not found">>],
    [class |-> "Error", code |-> 0, message |-> <<"boom">>],
    [class |-> "NonError", code |-> 0, message |-> <<>>] }

\* error.errors.map(e => e.message).join(', ')
RECURSIVE JoinComma(_)
JoinComma(msgs) ==
  IF Len(msgs) = 0 THEN <<>>
  ELSE IF Len(msgs) = 1 THEN <<msgs[1]>>
  ELSE <<msgs[1], ", ">> \o JoinComma(Tail(msgs))

\* -------------------------------------------------------------------- state
VARIABLES
  receivable,        \* transportService.getReceivableActions()
  port,              \* this.port
  server,            \* this.server: "null" or "server"
  listening,         \* whether the server object accepts connections
  initResult,        \* how init() settled: none / noop / configError / ok / listenError
  shutdownResult,    \* how shutdown() settled: none / pending / noop / resolved / rejected
  pendingResponses,  \* this.pendingResponses: request_id -> exchange whose resolver is stored
  pc,                \* per exchange: position of its request callback
  data,              \* per exchange: the parsed request envelope
  handler,           \* per exchange: idle / running / returned / threw
  timer,             \* per exchange: none / armed / cleared / fired
  promise,           \* per exchange: the promise awaited in executeActionHandler
  invoked,           \* per exchange: how often its stored resolver was called
  settledBy,         \* per exchange: the first settling event that occurred, with its value
  wire,              \* per exchange: what was written to res (writeHead + end)
  sends,             \* per send() call: its inputs and how it settled
  wireAttempts       \* number of http.request calls issued

lifeVars == <<receivable, port, server, listening, initResult, shutdownResult>>
exchVars == <<pendingResponses, pc, data, handler, timer, promise, invoked, settledBy, wire>>
sendVars == <<sends, wireAttempts>>
vars     == <<lifeVars, exchVars, sendVars>>

NoPromise == [state |-> "none", value |-> [kind |-> "none"]]
NoSend    == [state |-> "unused"]
NoEvent   == [by |-> "none", value |-> [kind |-> "none"]]

Init ==
  /\ receivable \in ReceivableConfigs
  /\ port \in Ports
  /\ server = "null"
  /\ listening = FALSE
  /\ initResult = "none"
  /\ shutdownResult = "none"
  /\ pendingResponses = <<>>
  /\ pc = [e \in Exchanges |-> "unused"]
  /\ data = [e \in Exchanges |-> NullData]
  /\ handler = [e \in Exchanges |-> "idle"]
  /\ timer = [e \in Exchanges |-> "none"]
  /\ promise = [e \in Exchanges |-> NoPromise]
  /\ invoked = [e \in Exchanges |-> 0]
  /\ settledBy = [e \in Exchanges |-> NoEvent]
  /\ wire = [e \in Exchanges |-> <<>>]
  /\ sends = [s \in Sends |-> NoSend]
  /\ wireAttempts = 0

\* ------------------------------------------------------------------ helpers
\* Map.set / Map.delete / Map.has on pendingResponses
\* Mutant of MapSet: a key that is already present keeps its value.
MapSetKeep(m, k, v) == [x \in (DOMAIN m) \cup {k} |-> IF x \in DOMAIN m THEN m[x] ELSE v]
MapSet(m, k, v) == [x \in (DOMAIN m) \cup {k} |-> IF x = k THEN v ELSE m[x]]
\* Mutant of MapDelete: the entry is never removed.
MapDeleteNone(m, k) == m
MapDelete(m, k) == [x \in (DOMAIN m) \ {k} |-> m[x]]
MapHas(m, k)    == k \in DOMAIN m

\* resolve()/reject() of a promise: only the first call settles it.
\* Mutant of Settle: a later resolve()/reject() replaces the settled value.
SettleOverwrite(p, st, v) == [state |-> st, value |-> v]
Settle(p, st, v) == IF p.state = "pending" THEN [state |-> st, value |-> v] ELSE p

\* Mutant of clearTimeout: the timer is left running.
clearTimeoutNone(t) == t

\* clearTimeout(timer): cancels a timer that has not fired yet.
clearTimeout(t) == IF t = "armed" THEN "cleared" ELSE t

\* The record of an exchange's settling events keeps the first one.
FirstEvent(old, by, v) == IF old.by = "none" THEN [by |-> by, value |-> v] ELSE old

\* Connections the server still holds open (a request not yet answered).
OpenConnections == { e \in Exchanges : pc[e] \in {"ignored", "awaiting"} }

\* ---------------------------------------------------------------- lifecycle
\* Mutant of InitOutcome: the port is not checked.
InitOutcomeNoPortCheck(rcv, p, listenOk) ==
  IF DOMAIN rcv = {} THEN "noop"
  ELSE IF listenOk THEN "ok"
  ELSE "listenError"

\* init(): a no-op without receivable actions, a configuration error without a
\* port, and otherwise createServer + listen (which the OS may refuse).
InitOutcome(rcv, p, listenOk) ==
  IF DOMAIN rcv = {} THEN "noop"
  ELSE IF p = 0 THEN "configError"
  ELSE IF listenOk THEN "ok"
  ELSE "listenError"

\* The application life cycle calls init() once, and shutdown() once after it.
init ==
  /\ initResult = "none"
  /\ \E listenOk \in BOOLEAN :
       LET out == InitOutcome(receivable, port, listenOk) IN
       /\ initResult' = out
       /\ server' = IF out \in {"ok", "listenError"} THEN "server" ELSE server
       /\ listening' = (out = "ok")
  /\ UNCHANGED <<receivable, port, shutdownResult, exchVars, sendVars>>

\* shutdown(), up to server.close(): returns at once when there is no server;
\* close() on a server that is not listening calls back with an error, and the
\* reference is then not cleared; otherwise the server stops accepting and the
\* call stays pending until every connection has ended.
ShutdownOutcome(srv, lst) ==
  IF srv = "null" THEN "noop"
  ELSE IF ~lst THEN "rejected"
  ELSE "pending"

shutdown ==
  /\ initResult # "none"
  /\ shutdownResult = "none"
  /\ shutdownResult' = ShutdownOutcome(server, listening)
  /\ listening' = FALSE
  /\ UNCHANGED <<receivable, port, server, initResult, exchVars, sendVars>>

\* Mutant of ServerAfterClose: the reference is kept.
ServerKept(srv) == srv

\* The close callback without error: this.server = null.
ServerAfterClose(srv) == "null"

shutdownClosed ==
  /\ shutdownResult = "pending"
  /\ OpenConnections = {}
  /\ shutdownResult' = "resolved"
  /\ server' = ServerAfterClose(server)
  /\ UNCHANGED <<receivable, port, listening, initResult, exchVars, sendVars>>

\* --------------------------------------------------------------- dispatcher
\* Mutant of HandleDecision: the bound handler is not checked for being defined.
HandleDecisionNoHandlerCheck(d, rcv) ==
  IF d.kind = "null" \/ ~(d.action \in DOMAIN rcv)
  THEN [throw |-> TRUE,
        error |-> BadRequestError(<<"Invalid action provided: ",
                                    IF d.kind = "null" THEN Undefined ELSE d.action>>)]
  ELSE [throw |-> FALSE]

\* The checks of handleHTTPRequest before the handler is reached.  `data.action
\* in actionsToConsume` is taken over the record's own keys (the receivable
\* set); names a plain object would inherit from its prototype are not modelled.
HandleDecision(d, rcv) ==
  IF d.kind = "null" \/ ~(d.action \in DOMAIN rcv)
  THEN [throw |-> TRUE,
        error |-> BadRequestError(<<"Invalid action provided: ",
                                    IF d.kind = "null" THEN Undefined ELSE d.action>>)]
  ELSE IF rcv[d.action] = Undefined
  THEN [throw |-> TRUE,
        error |-> InternalServerError(<<"Handler not defined for action: ", d.action>>)]
  ELSE [throw |-> FALSE]

\* Mutant of RejectionResponse: every rejection is reported as the default 500.
RejectionGeneric(err) ==
  [status |-> InternalCode, body |-> [error |-> <<"Internal Server Error">>]]

\* The catch block of handleHTTPRequest: wire status and bare {error} body.
RejectionResponse(err) ==
  IF err.class = "BaseError"
  THEN [status |-> err.code, body |-> [error |-> err.message]]
  ELSE [status |-> InternalCode, body |-> [error |-> <<"Internal Server Error">>]]

\* body ? JSON.parse(body) : null
ParseBody(body) == IF body.kind = "empty" THEN NullData ELSE body

\* The start of executeActionHandler's promise executor: where the resolver is
\* stored before the handler is called.
Register(m, d, e) == IF d.request_id # NoId THEN MapSet(m, d.request_id, e) ELSE m

\* An HTTP request that is not POST /http-transport reaches the listener: the
\* callback returns at once and the request is left unanswered.
requestIgnored(e, method, url) ==
  /\ listening
  /\ pc[e] = "unused"
  /\ \A f \in Exchanges : f < e => pc[f] # "unused"
  /\ method # "POST" \/ url # HTTP_TRANSPORT_ENDPOINT
  /\ pc' = [pc EXCEPT ![e] = "ignored"]
  /\ UNCHANGED <<lifeVars, sendVars, pendingResponses, data, handler, timer, promise, invoked, settledBy, wire>>

\* A POST /http-transport reaches the listener: the body is read whole, parsed
\* (an empty body is null) and handed to handleHTTPRequest, which runs up to
\* `await handler(data)`.
request(e, body) ==
  /\ listening
  /\ pc[e] = "unused"
  /\ \A f \in Exchanges : f < e => pc[f] # "unused"
  /\ LET d == ParseBody(body)
         dec == HandleDecision(d, receivable) IN
     /\ data' = [data EXCEPT ![e] = d]
     /\ IF dec.throw
        THEN /\ pc' = [pc EXCEPT ![e] = "rejected"]
             /\ wire' = [wire EXCEPT ![e] = Append(@, RejectionResponse(dec.error))]
             /\ UNCHANGED <<pendingResponses, handler, timer, promise, invoked, settledBy>>
        ELSE /\ pc' = [pc EXCEPT ![e] = "awaiting"]
             /\ promise' = [promise EXCEPT ![e] = [state |-> "pending", value |-> [kind |-> "none"]]]
             /\ timer' = [timer EXCEPT ![e] = "armed"]
             /\ pendingResponses' = Register(pendingResponses, d, e)
             /\ handler' = [handler EXCEPT ![e] = "running"]
             /\ UNCHANGED <<invoked, settledBy, wire>>
  /\ UNCHANGED <<lifeVars, sendVars>>

\* The client gives up on a request the listener left unanswered.
clientClose(e) ==
  /\ pc[e] = "ignored"
  /\ pc' = [pc EXCEPT ![e] = "closed"]
  /\ UNCHANGED <<lifeVars, sendVars, pendingResponses, data, handler, timer, promise, invoked, settledBy, wire>>

\* Mutant of handlerReturn: the handler's normal completion resolves the promise.
handlerReturnResolves(e) ==
  /\ handler[e] = "running"
  /\ handler' = [handler EXCEPT ![e] = "returned"]
  /\ promise' = [promise EXCEPT ![e] =
                   Settle(@, "fulfilled",
                          ResponseDTO(data[e].request_id, data[e].action, data[e].correlation_id))]
  /\ UNCHANGED <<lifeVars, sendVars, pendingResponses, pc, data, timer, invoked, settledBy, wire>>

\* `await handler(data)` completes normally: the executor just returns.
handlerReturn(e) ==
  /\ handler[e] = "running"
  /\ handler' = [handler EXCEPT ![e] = "returned"]
  /\ UNCHANGED <<lifeVars, sendVars, pendingResponses, pc, data, timer, promise, invoked, settledBy, wire>>

\* Mutant of Unregister: the catch block clears the whole registry.
UnregisterAll(m, d) == <<>>

\* The entry the executor's catch block deletes when the handler has failed.
Unregister(m, d) == IF d.request_id # NoId THEN MapDelete(m, d.request_id) ELSE m

\* `await handler(data)` throws or rejects: the executor's catch block.
handlerThrow(e, err) ==
  /\ handler[e] = "running"
  /\ handler' = [handler EXCEPT ![e] = "threw"]
  /\ timer' = [timer EXCEPT ![e] = clearTimeout(@)]
  /\ pendingResponses' = Unregister(pendingResponses, data[e])
  /\ promise' = [promise EXCEPT ![e] = Settle(@, "rejected", err)]
  /\ settledBy' = [settledBy EXCEPT ![e] = FirstEvent(@, "handler", err)]
  /\ UNCHANGED <<lifeVars, sendVars, pc, data, invoked, wire>>

\* Mutant of timerFire: the timer's callback also deletes the exchange's entry.
timerFirePurges(e) ==
  /\ timer[e] = "armed"
  /\ timer' = [timer EXCEPT ![e] = "fired"]
  /\ pendingResponses' = Unregister(pendingResponses, data[e])
  /\ promise' = [promise EXCEPT ![e] = Settle(@, "rejected", TimeoutError(data[e].action))]
  /\ settledBy' = [settledBy EXCEPT ![e] = FirstEvent(@, "timer", TimeoutError(data[e].action))]
  /\ UNCHANGED <<lifeVars, sendVars, pc, data, handler, invoked, wire>>

\* The 30-second timer's callback.
timerFire(e) ==
  /\ timer[e] = "armed"
  /\ timer' = [timer EXCEPT ![e] = "fired"]
  /\ promise' = [promise EXCEPT ![e] = Settle(@, "rejected", TimeoutError(data[e].action))]
  /\ settledBy' = [settledBy EXCEPT ![e] = FirstEvent(@, "timer", TimeoutError(data[e].action))]
  /\ UNCHANGED <<lifeVars, sendVars, pendingResponses, pc, data, handler, invoked, wire>>

\* sendResponse(data): calls the resolver stored under data.request_id (which
\* clears that exchange's timer and resolves its promise) and deletes the entry.
sendResponse(msg) ==
  /\ IF msg.request_id # NoId /\ MapHas(pendingResponses, msg.request_id)
     THEN LET f == pendingResponses[msg.request_id] IN
          /\ invoked' = [invoked EXCEPT ![f] = @ + 1]
          /\ timer' = [timer EXCEPT ![f] = clearTimeout(@)]
          /\ promise' = [promise EXCEPT ![f] = Settle(@, "fulfilled", msg)]
          /\ settledBy' = [settledBy EXCEPT ![f] = FirstEvent(@, "inject", msg)]
          /\ pendingResponses' = MapDelete(pendingResponses, msg.request_id)
     ELSE UNCHANGED <<invoked, timer, promise, settledBy, pendingResponses>>
  /\ UNCHANGED <<lifeVars, sendVars, pc, data, handler, wire>>

\* `err instanceof cls`: ZodError and BaseError are subclasses of Error; a
\* thrown value that is no Error is an instance of none of the three.
InstanceOf(err, cls) ==
  \/ err.class = cls
  \/ cls = "Error" /\ err.class \in {"ZodError", "BaseError"}

\* Mutant of ClassifyError: the test for Error comes first.
ClassifyErrorGenericFirst(err) ==
  IF InstanceOf(err, "Error")
  THEN [status |-> DefaultStatus, error |-> err.message]
  ELSE IF InstanceOf(err, "ZodError")
  THEN [status |-> ZodStatus, error |-> JoinComma(err.message)]
  ELSE IF InstanceOf(err, "BaseError")
  THEN [status |-> err.code, error |-> err.message]
  ELSE [status |-> InternalCode, error |-> <<"Internal Server Error">>]

\* The catch block of executeActionHandler: status and error of the envelope.
ClassifyError(err) ==
  IF InstanceOf(err, "ZodError")
  THEN [status |-> ZodStatus, error |-> JoinComma(err.message)]
  ELSE IF InstanceOf(err, "BaseError")
  THEN [status |-> err.code, error |-> err.message]
  ELSE IF InstanceOf(err, "Error")
  THEN [status |-> DefaultStatus, error |-> err.message]
  ELSE [status |-> InternalCode, error |-> <<"Internal Server Error">>]

\* Mutant of FinalResponse: the built envelope takes its correlation_id from the
\* wrong field of the request.
FinalResponseWrongField(d, p) ==
  IF p.state = "fulfilled"
  THEN p.value
  ELSE LET c == ClassifyError(p.value) IN
       [action |-> d.action, correlation_id |-> d.request_id,
        data |-> EmptyObject, error |-> c.error, status |-> c.status]

\* The envelope the finally block sends: the resolved one, or one it builds.
FinalResponse(d, p) ==
  IF p.state = "fulfilled"
  THEN p.value
  ELSE LET c == ClassifyError(p.value) IN
       [action |-> d.action, correlation_id |-> d.correlation_id,
        data |-> EmptyObject, error |-> c.error, status |-> c.status]

\* Mutant of FinalWireStatus: the logical status is written to the wire.
FinalWireLogical(logical) == logical

\* The wire status of the finally block's writeHead.
FinalWireStatus(logical) == WireOk

\* The awaited promise has settled: catch and finally of executeActionHandler.
respond(e) ==
  /\ pc[e] = "awaiting"
  /\ promise[e].state \in {"fulfilled", "rejected"}
  /\ LET r == FinalResponse(data[e], promise[e]) IN
       wire' = [wire EXCEPT ![e] = Append(@, [status |-> FinalWireStatus(r.status), body |-> r])]
  /\ pc' = [pc EXCEPT ![e] = "done"]
  /\ UNCHANGED <<lifeVars, sendVars, pendingResponses, data, handler, timer, promise, invoked, settledBy>>

\* ------------------------------------------------------------------- send
\* Inputs of send(): the envelope, the transport options and the timeout.
SendDTOs     == { [action |-> "A", request_id |-> NoId], [action |-> "U", request_id |-> "X"] }
SendOptions  == { [host |-> h, port |-> p] : h \in {"", "remote"}, p \in {0, 9090} }
SendTimeouts == {0, 1000}

\* What the remote end may answer: a response envelope, or a bare {error} body.
ReplyBodies ==
  { [action |-> "A", correlation_id |-> "c1", data |-> "payload", error |-> <<>>, status |-> 200],
    [error |-> <<"Invalid action provided: ", "A">>] }

\* data.request_id = uuidv4() when absent
FillRequestId(d) == IF d.request_id = NoId THEN [d EXCEPT !.request_id = "uuid"] ELSE d

\* Mutant of SendValidation: the port is not checked.
SendValidationNoPort(d, options) ==
  IF ~(d.action \in SendableActions)
  THEN [ok |-> FALSE, error |-> BadRequestError(<<"Invalid action provided: ", d.action>>)]
  ELSE IF options.host = ""
  THEN [ok |-> FALSE, error |-> BadRequestError(<<"Host and/or port missing in transport options">>)]
  ELSE [ok |-> TRUE]

\* The two checks of send(), in order; "ok" lets the call reach sendHTTPRequest.
SendValidation(d, options) ==
  IF ~(d.action \in SendableActions)
  THEN [ok |-> FALSE, error |-> BadRequestError(<<"Invalid action provided: ", d.action>>)]
  ELSE IF options.host = "" \/ options.port = 0
  THEN [ok |-> FALSE, error |-> BadRequestError(<<"Host and/or port missing in transport options">>)]
  ELSE [ok |-> TRUE]

\* send(data, options, timeout), up to the point where the request is written.
send(s, d, options, timeout) ==
  /\ sends[s].state = "unused"
  /\ \A t \in Sends : t < s => sends[t].state # "unused"
  /\ LET filled == FillRequestId(d)
         v == SendValidation(filled, options)
         call == [data |-> filled, options |-> options, timeout |-> timeout,
                  shutdownAtCall |-> shutdownResult]
     IN IF v.ok
        THEN /\ sends' = [sends EXCEPT ![s] = [state |-> "inflight", call |-> call, attempted |-> TRUE]]
             /\ wireAttempts' = wireAttempts + 1
        ELSE /\ sends' = [sends EXCEPT ![s] =
                  [state |-> "rejected", call |-> call, attempted |-> FALSE, error |-> v.error]]
             /\ UNCHANGED wireAttempts
  /\ UNCHANGED <<lifeVars, exchVars>>

\* res 'end': the whole reply body is parsed and resolves the call.
sendReply(s, body) ==
  /\ sends[s].state = "inflight"
  /\ sends' = [sends EXCEPT ![s] = [@ EXCEPT !.state = "resolved"] @@ [response |-> body]]
  /\ UNCHANGED <<lifeVars, exchVars, wireAttempts>>

\* req 'error': a transport-level failure rejects the call with that failure.
sendNetworkError(s) ==
  /\ sends[s].state = "inflight"
  /\ sends' = [sends EXCEPT ![s] = [@ EXCEPT !.state = "failed"] @@
                 [error |-> [class |-> "Error", code |-> 0, message |-> <<"ECONNREFUSED">>]]]
  /\ UNCHANGED <<lifeVars, exchVars, wireAttempts>>

\* The socket timeout, set only for a truthy timeout: the request is destroyed
\* with an InternalServerError, which rejects the call.
sendTimeout(s) ==
  /\ sends[s].state = "inflight"
  /\ sends[s].call.timeout # 0
  /\ sends' = [sends EXCEPT ![s] = [@ EXCEPT !.state = "failed"] @@
                 [error |-> InternalServerError(<<"Request timed out after ", sends[s].call.timeout, "ms">>)]]
  /\ UNCHANGED <<lifeVars, exchVars, wireAttempts>>

\* ------------------------------------------- the non-deferred dispatcher
\* The dispatcher of src/src/http-transport.adapter.ts, which answers as soon
\* as the handler has completed.  An exchange it serves uses the same slots;
\* its states carry the prefix "legacy".

\* What a handler of the non-deferred variant resolves with.
HandlerResults == {"payload"}

\* Mutant of LegacyHandleDecision: the action is looked up as a key, as the
\* deferred-completion variant does.
LegacyHandleDecisionByKey(d, rcv) ==
  IF d.kind = "null" \/ ~(d.action \in DOMAIN rcv)
  THEN [throw |-> TRUE,
        error |-> BadRequestError(<<"Invalid action provided: ",
                                    IF d.kind = "null" THEN Undefined ELSE d.action>>)]
  ELSE IF rcv[d.action] = Undefined
  THEN [throw |-> TRUE,
        error |-> InternalServerError(<<"Handler not defined for action: ", d.action>>)]
  ELSE [throw |-> FALSE]

\* The checks of the non-deferred handleHTTPRequest: `!actionHandlers[req.action]`
\* is true for an absent key and for a key with no handler bound alike, so the
\* second check never throws.
LegacyHandleDecision(d, rcv) ==
  IF d.kind = "null" \/ ~(d.action \in DOMAIN rcv /\ rcv[d.action] # Undefined)
  THEN [throw |-> TRUE,
        error |-> BadRequestError(<<"Invalid action provided: ",
                                    IF d.kind = "null" THEN Undefined ELSE d.action>>)]
  ELSE IF rcv[d.action] = Undefined
  THEN [throw |-> TRUE,
        error |-> InternalServerError(<<"Handler not defined for action: ", d.action>>)]
  ELSE [throw |-> FALSE]

\* The catch block of the non-deferred handleHTTPRequest.
LegacyRejectionResponse(err) ==
  IF err.class = "BaseError"
  THEN [status |-> err.code, body |-> [error |-> err.message]]
  ELSE [status |-> InternalCode, body |-> [error |-> <<"Internal Server Error">>]]

\* CorrelatedMessage.create(req.correlation_id, req.action, req.transport,
\* responseData, error): the message made of the arguments it is given (the
\* transport name, which the envelopes of this model do not carry, is left out).
LegacyResponse(d, responseData, error) ==
  [correlation_id |-> d.correlation_id, action |-> d.action,
   data |-> responseData, error |-> error]

\* A POST to the endpoint served by the non-deferred dispatcher.
legacyRequest(e, body) ==
  /\ listening
  /\ pc[e] = "unused"
  /\ \A f \in Exchanges : f < e => pc[f] # "unused"
  /\ LET d == ParseBody(body)
         dec == LegacyHandleDecision(d, receivable) IN
     /\ data' = [data EXCEPT ![e] = d]
     /\ IF dec.throw
        THEN /\ pc' = [pc EXCEPT ![e] = "legacyRejected"]
             /\ wire' = [wire EXCEPT ![e] = Append(@, LegacyRejectionResponse(dec.error))]
             /\ UNCHANGED handler
        ELSE /\ pc' = [pc EXCEPT ![e] = "legacyAwaiting"]
             /\ handler' = [handler EXCEPT ![e] = "legacyRunning"]
             /\ UNCHANGED wire
  /\ UNCHANGED <<lifeVars, sendVars, pendingResponses, timer, promise, invoked, settledBy>>

\* `responseData = await handler(req)` completes: the finally block answers.
legacyHandlerReturn(e, result) ==
  /\ handler[e] = "legacyRunning"
  /\ handler' = [handler EXCEPT ![e] = "legacyReturned"]
  /\ pc' = [pc EXCEPT ![e] = "legacyDone"]
  /\ wire' = [wire EXCEPT ![e] =
                Append(@, [status |-> WireOk, body |-> LegacyResponse(data[e], result, Undefined)])]
  /\ UNCHANGED <<lifeVars, sendVars, pendingResponses, data, timer, promise, invoked, settledBy>>

\* `await handler(req)` throws or rejects: the error is caught and the finally
\* block answers with it.
legacyHandlerThrow(e, err) ==
  /\ handler[e] = "legacyRunning"
  /\ handler' = [handler EXCEPT ![e] = "legacyThrew"]
  /\ pc' = [pc EXCEPT ![e] = "legacyDone"]
  /\ wire' = [wire EXCEPT ![e] =
                Append(@, [status |-> WireOk, body |-> LegacyResponse(data[e], Undefined, err)])]
  /\ UNCHANGED <<lifeVars, sendVars, pendingResponses, data, timer, promise, invoked, settledBy>>

\* The dispatcher behind a listener that init() has bound.
Next ==
  \/ init
  \/ \E e \in Exchanges, b \in RequestDTOs \cup {EmptyBody} : request(e, b)
  \/ \E e \in Exchanges : handlerReturn(e)
  \/ \E e \in Exchanges, err \in HandlerErrors : handlerThrow(e, err)
  \/ \E e \in Exchanges : timerFire(e)
  \/ \E msg \in ResponseDTOs : sendResponse(msg)
  \/ \E e \in Exchanges : respond(e)

Spec == Init /\ [][Next]_vars

\* Both dispatchers behind the same listener: each request is served by the
\* deferred-completion variant or by the non-deferred one.
NextVariants ==
  \/ init
  \/ \E e \in Exchanges, b \in RequestDTOs \cup {EmptyBody} : request(e, b)
  \/ \E e \in Exchanges : handlerReturn(e)
  \/ \E e \in Exchanges, err \in HandlerErrors : handlerThrow(e, err)
  \/ \E e \in Exchanges : timerFire(e)
  \/ \E msg \in ResponseDTOs : sendResponse(msg)
  \/ \E e \in Exchanges : respond(e)
  \/ \E e \in Exchanges, b \in RequestDTOs \cup {EmptyBody} : legacyRequest(e, b)
  \/ \E e \in Exchanges, result \in HandlerResults : legacyHandlerReturn(e, result)
  \/ \E e \in Exchanges, err \in HandlerErrors : legacyHandlerThrow(e, err)

SpecVariants == Init /\ [][NextVariants]_vars

\* The life cycle, with the connections shutdown() waits for, and the outbound
\* side.
NextSend ==
  \/ init
  \/ shutdown
  \/ shutdownClosed
  \/ \E e \in Exchanges, mu \in OtherRequests : requestIgnored(e, mu[1], mu[2])
  \/ \E e \in Exchanges : clientClose(e)
  \/ \E s \in Sends, d \in SendDTOs, o \in SendOptions, t \in SendTimeouts : send(s, d, o, t)
  \/ \E s \in Sends, body \in ReplyBodies : sendReply(s, body)
  \/ \E s \in Sends : sendNetworkError(s)
  \/ \E s \in Sends : sendTimeout(s)

SpecSend == Init /\ [][NextSend]_vars

\* =================================================================== claims
\* The write the first settling event of exchange e calls for.
ExpectedWrite(e) ==
  LET ev == settledBy[e] IN
  [status |-> 200,
   body |-> FinalResponse(data[e],
              [state |-> IF ev.by = "inject" THEN "fulfilled" ELSE "rejected", value |-> ev.value])]

\* C1: every dispatched request gets exactly one response: nothing is written
\* before a settling event, an unsettled exchange always has its timer armed
\* (so it cannot stay unanswered), and once it has been answered the single
\* response written is the one the FIRST settling event (handler failure,
\* injection, timer) calls for, whatever events came later.
C1_ExactlyOneResponse ==
  \A e \in Exchanges :
    /\ Len(wire[e]) <= 1
    /\ pc[e] = "awaiting" =>
         /\ wire[e] = <<>>
         /\ settledBy[e].by = "none" => (timer[e] = "armed" /\ promise[e].state = "pending")
         /\ settledBy[e].by # "none" => promise[e].state \in {"fulfilled", "rejected"}
    /\ pc[e] = "done" =>
         /\ settledBy[e].by # "none"
         /\ wire[e] = <<ExpectedWrite(e)>>

\* An exchange answered with its timeout, after which a late injection called
\* its stale resolver and its handler failed.
C1_Witness ==
  \E e \in Exchanges :
    /\ pc[e] = "done"
    /\ settledBy[e].by = "timer"
    /\ invoked[e] = 1
    /\ handler[e] = "threw"
    /\ Len(wire[e]) = 1

\* C2: sendResponse for a registered id calls the stored resolver exactly once
\* with the injected envelope and removes the entry; sendResponse for an id
\* that is not registered, or without request_id, changes nothing; and no
\* resolver is ever called more than once.
C2_InjectOnce ==
  /\ [](\A e \in Exchanges : invoked[e] <= 1)
  /\ [][\A msg \in ResponseDTOs :
          sendResponse(msg) =>
            IF msg.request_id # NoId /\ msg.request_id \in DOMAIN pendingResponses
            THEN LET f == pendingResponses[msg.request_id] IN
                 /\ invoked'[f] = invoked[f] + 1
                 /\ \A g \in Exchanges \ {f} : invoked'[g] = invoked[g]
                 /\ promise[f].state = "pending" =>
                      promise'[f] = [state |-> "fulfilled", value |-> msg]
                 /\ msg.request_id \notin DOMAIN pendingResponses'
                 /\ \A k \in DOMAIN pendingResponses \ {msg.request_id} :
                      k \in DOMAIN pendingResponses' /\ pendingResponses'[k] = pendingResponses[k]
            ELSE UNCHANGED vars]_vars

\* A resolver has been called with an injected envelope and its entry is gone,
\* so that a second sendResponse with the same id finds nothing.
C2_Witness ==
  \E e \in Exchanges :
    /\ invoked[e] = 1
    /\ settledBy[e].by = "inject"
    /\ promise[e] = [state |-> "fulfilled", value |-> settledBy[e].value]
    /\ data[e].request_id \notin DOMAIN pendingResponses

\* C3: when the timer of an exchange with a registered request_id fires before
\* any injection and before a handler failure, the exchange is answered with
\* the timeout envelope (the timeout message, the status of the timeout error),
\* and with nothing else, once.
C3_TimeoutSettles ==
  \A e \in Exchanges :
    (data[e].kind = "request" /\ data[e].request_id # NoId /\ settledBy[e].by = "timer") =>
      /\ timer[e] = "fired"
      /\ promise[e].state = "rejected"
      /\ pc[e] \in {"awaiting", "done"}
      /\ pc[e] = "awaiting" => wire[e] = <<>>
      /\ pc[e] = "done" =>
           wire[e] = << [status |-> 200,
                         body |-> [action |-> data[e].action,
                                   correlation_id |-> data[e].correlation_id,
                                   data |-> EmptyObject,
                                   error |-> <<"Timeout waiting for HTTP response on ", data[e].action>>,
                                   status |-> 500]] >>

\* An exchange registered under X timed out and its timeout envelope was sent.
C3_Witness ==
  \E e \in Exchanges :
    /\ data[e].kind = "request" /\ data[e].request_id = "X"
    /\ settledBy[e].by = "timer"
    /\ handler[e] = "returned"
    /\ pc[e] = "done"

\* A step taken for request_id x: a sendResponse for x, the failure of the
\* handler of an exchange with request_id x, or the timer of such an exchange.
StepFor(x) ==
  \/ \E msg \in ResponseDTOs : msg.request_id = x /\ sendResponse(msg)
  \/ \E e \in Exchanges, err \in HandlerErrors :
       data[e].kind = "request" /\ data[e].request_id = x /\ handlerThrow(e, err)
  \/ \E e \in Exchanges :
       data[e].kind = "request" /\ data[e].request_id = x /\ timerFire(e)

\* C4: a step taken for request_id x leaves every exchange with another
\* request_id y as it is: its resolver is not called, its registry entry stays,
\* its timer is not cancelled and its outcome does not change.
C4_Independent ==
  [][\A x \in RequestIds :
       StepFor(x) =>
         \A f \in Exchanges :
           (data[f].kind = "request" /\ data[f].request_id \in RequestIds \ {x}) =>
             /\ invoked'[f] = invoked[f]
             /\ timer'[f] = timer[f]
             /\ promise'[f] = promise[f]
             /\ settledBy'[f] = settledBy[f]
             /\ wire'[f] = wire[f]
             /\ pc'[f] = pc[f]
             /\ data[f].request_id \in DOMAIN pendingResponses =>
                  /\ data[f].request_id \in DOMAIN pendingResponses'
                  /\ pendingResponses'[data[f].request_id] = pendingResponses[data[f].request_id]]_vars

\* The exchange under X has failed in its handler while the exchange under Y is
\* still pending, registered and with its timer armed.
C4_Witness ==
  \E e, f \in Exchanges :
    /\ data[e].kind = "request" /\ data[e].request_id = "X"
    /\ data[f].kind = "request" /\ data[f].request_id = "Y"
    /\ settledBy[e].by = "handler"
    /\ pc[f] = "awaiting" /\ settledBy[f].by = "none" /\ timer[f] = "armed"
    /\ "Y" \in DOMAIN pendingResponses /\ pendingResponses["Y"] = f

\* A parsed request the dispatcher must reject as invalid.
InvalidData(d) == d.kind = "null" \/ d.action \notin DOMAIN receivable

C6_WireStatus200 ==
  \A e \in Exchanges :
    \A i \in 1..Len(wire[e]) :
      /\ handler[e] # "idle" => wire[e][i].status = 200
      /\ wire[e][i].status # 200 => (pc[e] = "rejected" /\ handler[e] = "idle")

\* A handler failure with logical status 404 answered with wire status 200.
C6_Witness ==
  \E e \in Exchanges :
    /\ pc[e] = "done"
    /\ wire[e][1].status = 200
    /\ wire[e][1].body.status = 404

EnvelopeFields == {"action", "correlation_id", "data", "error", "status"}

\* C7 as stated: every response to a valid request for a bound action carries
\* the request's own action and correlation_id, in every outcome.
C7_Original ==
  \A e \in Exchanges :
    pc[e] = "done" =>
      /\ EnvelopeFields \subseteq DOMAIN wire[e][1].body
      /\ wire[e][1].body.action = data[e].action
      /\ wire[e][1].body.correlation_id = data[e].correlation_id

\* C7 (amended): the response to a valid request for a bound action always
\* carries action, correlation_id, data, error and status; in an envelope the
\* dispatcher builds (handler failure, timeout) they are the request's own
\* action and correlation_id with data = {}, and for an injected outcome the
\* body is the injected envelope as it was handed to sendResponse.
C7_EchoUnlessInjected ==
  \A e \in Exchanges :
    pc[e] = "done" =>
      /\ EnvelopeFields \subseteq DOMAIN wire[e][1].body
      /\ settledBy[e].by \in {"handler", "timer"} =>
           /\ wire[e][1].body.action = data[e].action
           /\ wire[e][1].body.correlation_id = data[e].correlation_id
           /\ wire[e][1].body.data = EmptyObject
      /\ settledBy[e].by = "inject" => wire[e][1].body = settledBy[e].value

\* One exchange answered with an injected envelope naming another action, and
\* one answered with an envelope the dispatcher built.
C7_Witness ==
  \E e, f \in Exchanges :
    /\ pc[e] = "done" /\ settledBy[e].by = "inject"
    /\ wire[e][1].body.action # data[e].action
    /\ pc[f] = "done" /\ settledBy[f].by = "handler"

Used(s) == sends[s].state # "unused"

\* What send() must refuse: an action that is not sendable, or options without
\* host or port.
MustRefuse(call) ==
  \/ call.data.action \notin SendableActions
  \/ call.options.host = ""
  \/ call.options.port = 0

\* C8: send() rejects with a bad-request error and without a wire attempt when
\* the action is not sendable or host or port is missing; a wire call is
\* issued only when both checks pass, and then it is issued.
C8_SendValidated ==
  /\ \A s \in Sends :
       Used(s) =>
         /\ MustRefuse(sends[s].call) =>
              /\ sends[s].state = "rejected"
              /\ sends[s].error.code = 400
              /\ ~sends[s].attempted
         /\ ~MustRefuse(sends[s].call) => sends[s].attempted
  /\ wireAttempts = Cardinality({ s \in Sends : Used(s) /\ sends[s].attempted })

\* A sendable action refused for its missing port, and a call that went out.
C8_Witness ==
  \E s, t \in Sends :
    /\ sends[s].state = "rejected"
    /\ sends[s].call.data.action = "A"
    /\ sends[s].call.options.host = "remote"
    /\ Used(t) /\ sends[t].attempted
    /\ wireAttempts = 1

ShutdownCompleted(r) == r \in {"resolved", "noop"}

\* C9 as stated: after shutdown() has completed no send() settles with a
\* response envelope.
C9_Original ==
  \A s \in Sends :
    (Used(s) /\ ShutdownCompleted(sends[s].call.shutdownAtCall)) => sends[s].state # "resolved"

\* C9 (amended): after shutdown() has completed the listener is closed (server
\* reference cleared, port released); send() does not depend on the listener:
\* a send attempted afterwards is refused exactly when its action is not
\* sendable or host/port is missing, and otherwise goes out on the wire and
\* fails only through a transport failure or its timeout.
C9_ShutdownClosesListener ==
  /\ ShutdownCompleted(shutdownResult) => (server = "null" /\ ~listening)
  /\ \A s \in Sends :
       (Used(s) /\ ShutdownCompleted(sends[s].call.shutdownAtCall)) =>
         /\ server = "null" /\ ~listening
         /\ sends[s].state = "rejected" <=> MustRefuse(sends[s].call)
         /\ sends[s].attempted <=> ~MustRefuse(sends[s].call)
         /\ sends[s].state = "failed" =>
              \/ sends[s].error.message = <<"ECONNREFUSED">>
              \/ sends[s].call.timeout # 0 /\ sends[s].error.code = 500

\* A send issued after the listener was closed settled with a response.
C9_Witness ==
  \E s \in Sends :
    /\ sends[s].state = "resolved"
    /\ sends[s].call.shutdownAtCall = "resolved"
    /\ server = "null"

\* C10: init() creates and binds a server only when there are receivable
\* actions: without any it is a no-op whatever the port, and with some but
\* port 0 it fails with the configuration error and creates no server.
C10_InitBinds ==
  /\ initResult # "none" =>
       /\ DOMAIN receivable = {} => initResult = "noop"
       /\ (DOMAIN receivable # {} /\ port = 0) => initResult = "configError"
       /\ initResult \in {"noop", "configError"} => (server = "null" /\ ~listening)
  /\ (server # "null" \/ listening) => (DOMAIN receivable # {} /\ port # 0)

\* init() has failed for want of a port, with receivable actions configured.
C10_Witness ==
  /\ initResult = "configError"
  /\ DOMAIN receivable # {}
  /\ port = 0
  /\ server = "null"

\* C11: a request whose action is a key of the receivable record with no
\* handler bound is answered with wire status 500 and a bare {error} body;
\* nothing is registered for it, no timer is started and no handler called.
C11_UnboundRejected ==
  /\ [](\A e \in Exchanges :
          (/\ pc[e] \in {"rejected", "awaiting", "done"}
           /\ data[e].kind = "request"
           /\ data[e].action \in DOMAIN receivable
           /\ receivable[data[e].action] = "undefined") =>
            /\ pc[e] = "rejected"
            /\ wire[e] = << [status |-> 500,
                             body |-> [error |-> <<"Handler not defined for action: ",
                                                   data[e].action>>]] >>
            /\ handler[e] = "idle"
            /\ timer[e] = "none"
            /\ promise[e].state = "none"
            /\ \A k \in DOMAIN pendingResponses : pendingResponses[k] # e)
  /\ [][\A e \in Exchanges, b \in RequestDTOs :
          (/\ b.action \in DOMAIN receivable
           /\ receivable[b.action] = "undefined"
           /\ request(e, b)) =>
            UNCHANGED <<pendingResponses, handler, timer, promise, invoked, settledBy>>]_vars

\* The unbound action B was rejected while an exchange under its request_id X
\* stays registered.
C11_Witness ==
  \E e, f \in Exchanges :
    /\ pc[e] = "awaiting" /\ pendingResponses = [k \in {"X"} |-> e] /\ timer[e] = "armed"
    /\ pc[f] = "rejected" /\ data[f].kind = "request" /\ data[f].action = "B"
    /\ data[f].request_id = "X"

\* C12: when the failure of the handler is the first settling event of an
\* exchange, its timer is cancelled and never fires, the entry under its
\* request_id is removed, and the outcome is that error; a later sendResponse
\* for that request_id leaves the exchange as it is, and changes nothing at all
\* unless the id has been registered again by a newer request.
C12_HandlerFailureFirst ==
  /\ [](\A e \in Exchanges :
          settledBy[e].by = "handler" =>
            /\ timer[e] = "cleared"
            /\ invoked[e] = 0
            /\ promise[e] = [state |-> "rejected", value |-> settledBy[e].value]
            /\ \A k \in DOMAIN pendingResponses : pendingResponses[k] # e
            /\ pc[e] = "done" =>
                 /\ Len(wire[e]) = 1
                 /\ wire[e][1].body.error = ClassifyError(settledBy[e].value).error
                 /\ wire[e][1].body.status = ClassifyError(settledBy[e].value).status)
  /\ [][\A e \in Exchanges :
          /\ \A err \in HandlerErrors :
               (settledBy[e].by = "none" /\ handlerThrow(e, err)) =>
                 /\ settledBy'[e] = [by |-> "handler", value |-> err]
                 /\ timer'[e] = "cleared"
                 /\ data[e].request_id \notin DOMAIN pendingResponses'
          /\ \A msg \in ResponseDTOs :
               (/\ settledBy[e].by = "handler"
                /\ msg.request_id = data[e].request_id
                /\ sendResponse(msg)) =>
                 /\ timer'[e] = timer[e] /\ promise'[e] = promise[e]
                 /\ invoked'[e] = invoked[e] /\ wire'[e] = wire[e] /\ pc'[e] = pc[e]
                 /\ msg.request_id \notin DOMAIN pendingResponses => UNCHANGED vars]_vars

\* The handler of an exchange registered under X failed first, the failure was
\* answered, and X is no longer registered.
C12_Witness ==
  \E e \in Exchanges :
    /\ settledBy[e].by = "handler"
    /\ data[e].request_id = "X"
    /\ pc[e] = "done"
    /\ "X" \notin DOMAIN pendingResponses

\* C13: a request_id leaves the registry only in a sendResponse for that id or
\* in the failure of the handler of an exchange carrying that id; the timer's
\* callback leaves the registry as it is, so the entry of a timed-out exchange
\* stays.  A later sendResponse for it calls the stale resolver and removes the
\* entry, and changes neither the outcome nor what was written.
C13_TimeoutKeepsEntry ==
  /\ [][/\ \A k \in DOMAIN pendingResponses :
             k \notin DOMAIN pendingResponses' =>
               \/ \E msg \in ResponseDTOs : msg.request_id = k /\ sendResponse(msg)
               \/ \E e \in Exchanges, err \in HandlerErrors :
                    handlerThrow(e, err) /\ data[e].request_id = k
        /\ \A e \in Exchanges : timerFire(e) => pendingResponses' = pendingResponses
        /\ \A msg \in ResponseDTOs :
             (/\ msg.request_id \in DOMAIN pendingResponses
              /\ settledBy[pendingResponses[msg.request_id]].by = "timer"
              /\ sendResponse(msg)) =>
               LET f == pendingResponses[msg.request_id] IN
                 /\ invoked'[f] = invoked[f] + 1
                 /\ msg.request_id \notin DOMAIN pendingResponses'
                 /\ promise'[f] = promise[f]
                 /\ promise[f].value = TimeoutError(data[f].action)
                 /\ wire' = wire /\ pc' = pc]_vars
  /\ [](\A e \in Exchanges : Len(wire[e]) <= 1)

\* An exchange timed out, the timeout was answered while its entry was still
\* registered, and a later sendResponse then called the stale resolver.
C13_Witness ==
  \E e \in Exchanges :
    /\ settledBy[e].by = "timer"
    /\ handler[e] = "running"
    /\ invoked[e] = 1
    /\ pc[e] = "done"
    /\ Len(wire[e]) = 1
    /\ wire[e][1].body.status = 500
    /\ data[e].request_id \notin DOMAIN pendingResponses

\* Requests are taken in the order of their exchange numbers.
Dispatched(e) == pc[e] \in {"awaiting", "done"}

\* C14: a request that arrives under a request_id that is already registered
\* replaces the entry, so the registry always holds the latest exchange
\* dispatched under an id and sendResponse settles only that one; an exchange
\* that is pending when a later one takes over its id settles only through its
\* own handler failure or its own timer.
C14_LatestWins ==
  /\ [](\A k \in DOMAIN pendingResponses :
          /\ Dispatched(pendingResponses[k])
          /\ data[pendingResponses[k]].request_id = k
          /\ \A f \in Exchanges :
               (Dispatched(f) /\ data[f].request_id = k) => f <= pendingResponses[k])
  /\ [][/\ \A e \in Exchanges, b \in RequestDTOs :
             (b.request_id \in DOMAIN pendingResponses /\ request(e, b) /\ pc'[e] = "awaiting") =>
               /\ pendingResponses[b.request_id] # e
               /\ pendingResponses' = [pendingResponses EXCEPT ![b.request_id] = e]
               /\ promise'[e].state = "pending"
               /\ \A f \in Exchanges \ {e} : promise'[f] = promise[f] /\ timer'[f] = timer[f]
               /\ wire' = wire
        /\ \A e \in Exchanges :
             (/\ Dispatched(e)
              /\ settledBy[e].by = "none"
              /\ \E f \in Exchanges :
                   f > e /\ Dispatched(f) /\ data[f].request_id = data[e].request_id) =>
               /\ settledBy'[e].by \in {"none", "handler", "timer"}
               /\ invoked'[e] = invoked[e]]_vars

\* Two exchanges under X: the later one was settled by sendResponse, the
\* earlier one, overwritten while pending, by its own timer.
C14_Witness ==
  \E e, f \in Exchanges :
    /\ e < f
    /\ data[e].kind = "request" /\ data[f].kind = "request"
    /\ data[e].request_id = "X" /\ data[f].request_id = "X"
    /\ settledBy[f].by = "inject" /\ invoked[f] = 1
    /\ settledBy[e].by = "timer" /\ invoked[e] = 0
    /\ pc[e] = "done" /\ pc[f] = "done"

\* C15: the envelope the dispatcher builds for a failed exchange classifies
\* the error in this order: a schema-validation error gives status 400 and its
\* issue messages joined with ", "; otherwise a structured application error
\* gives its own code and message; otherwise any other Error keeps its
\* message.  The envelope has data = {} and the request's action and
\* correlation_id.
C15_Classification ==
  \A e \in Exchanges :
    (pc[e] = "done" /\ settledBy[e].by \in {"handler", "timer"}) =>
      LET err == settledBy[e].value
          env == wire[e][1].body
      IN /\ env.data = EmptyObject
         /\ env.action = data[e].action
         /\ env.correlation_id = data[e].correlation_id
         /\ err.class = "ZodError" =>
              /\ env.status = 400
              /\ env.error = <<err.message[1], ", ", err.message[2]>>
         /\ err.class = "BaseError" =>
              /\ env.status = err.code
              /\ env.error = err.message
         /\ err.class = "Error" => env.error = err.message

\* One exchange answered a schema-validation error of its handler, the other a
\* structured application error.
C15_Witness ==
  \E e, f \in Exchanges :
    /\ pc[e] = "done" /\ settledBy[e].by = "handler" /\ settledBy[e].value.class = "ZodError"
    /\ wire[e][1].body.error = <<"m1", ", ", "m2">>
    /\ pc[f] = "done" /\ settledBy[f].by = "handler" /\ settledBy[f].value.class = "BaseError"
    /\ wire[f][1].body.status = 404

\* C16 as stated: no entry is ever registered under an absent request_id, and
\* a sendResponse for the request_id of an exchange whose handler has started
\* and has not failed, and whose timer has not fired, settles that exchange
\* with the injected envelope.
C16_Original ==
  /\ [](\A k \in DOMAIN pendingResponses : k # NoId)
  /\ [][\A e \in Exchanges, msg \in ResponseDTOs :
          (/\ Dispatched(e)
           /\ data[e].request_id # NoId
           /\ msg.request_id = data[e].request_id
           /\ handler[e] \in {"running", "returned"}
           /\ timer[e] = "armed"
           /\ sendResponse(msg)) =>
            /\ promise'[e] = [state |-> "fulfilled", value |-> msg]
            /\ settledBy'[e] = [by |-> "inject", value |-> msg]]_vars

\* C17 as stated: an exchange whose handler has completed normally and which
\* no sendResponse has settled does not end with the timeout.
C17_Original ==
  [][\A e \in Exchanges :
       (handler[e] = "returned" /\ settledBy[e].by = "none") =>
         settledBy'[e].by # "timer"]_vars

\* C17, amended: the normal completion of the handler changes nothing but the
\* handler's own state.  The exchange stays pending, with its timer armed,
\* until a sendResponse for its request_id or the timer settles it; without a
\* sendResponse it is answered with the timeout error.
C17_ReturnNotObserved ==
  /\ [](\A e \in Exchanges :
          handler[e] = "returned" =>
            /\ settledBy[e].by \in {"none", "inject", "timer"}
            /\ settledBy[e].by = "none" =>
                 /\ promise[e].state = "pending"
                 /\ timer[e] = "armed"
                 /\ pc[e] = "awaiting"
                 /\ wire[e] = <<>>
            /\ (invoked[e] = 0 /\ pc[e] = "done") =>
                 /\ settledBy[e].by = "timer"
                 /\ wire[e][1].body.status = 500
                 /\ wire[e][1].body.error =
                      <<"Timeout waiting for HTTP response on ", data[e].action>>)
  /\ [][\A e \in Exchanges :
          handlerReturn(e) =>
            UNCHANGED <<pendingResponses, pc, timer, promise, invoked, settledBy, wire>>]_vars

\* A handler returned normally while its exchange was pending, no sendResponse
\* reached the exchange, and it was answered with the timeout error.
C17_Witness ==
  \E e \in Exchanges :
    /\ handler[e] = "returned"
    /\ invoked[e] = 0
    /\ settledBy[e].by = "timer"
    /\ pc[e] = "done"
    /\ wire[e][1].body.status = 500

\* C19 as stated: the failure of an exchange's handler leaves every registry
\* entry that was registered by another exchange in place.
C19_Original ==
  [][\A e \in Exchanges, err \in HandlerErrors :
       handlerThrow(e, err) =>
         \A k \in DOMAIN pendingResponses :
           pendingResponses[k] # e =>
             /\ k \in DOMAIN pendingResponses'
             /\ pendingResponses'[k] = pendingResponses[k]]_vars

\* C20 as stated: in an envelope the dispatcher built itself the status is 200
\* exactly when the error text is empty, and the envelope of a handler failure
\* or of a timeout never has status 200.
C20_Original ==
  \A e \in Exchanges :
    (pc[e] = "done" /\ settledBy[e].by \in {"handler", "timer"}) =>
      /\ (wire[e][1].body.status = 200) <=> (wire[e][1].body.error = <<>>)
      /\ wire[e][1].body.status # 200

\* Exchange l was served by the non-deferred dispatcher and exchange e by the
\* deferred-completion one, for the same request.
SameRequest(l, e) ==
  /\ pc[l] \in {"legacyRejected", "legacyAwaiting", "legacyDone"}
  /\ pc[e] \in {"rejected", "awaiting", "done"}
  /\ data[l] = data[e]

====
